---- MODULE Spec2Model ----
(***************************************************************************)
(* Model of static/js/core/utils.js (Intercept core utility functions).    *)
(*                                                                         *)
(* SpecRate      debounce() and throttle() on the host's single-threaded   *)
(*               event loop: a clock, the host timer table (setTimeout /   *)
(*               clearTimeout), the closure variables `timeout` and        *)
(*               `inThrottle`, and the wrapped function, which may return, *)
(*               throw, or call the wrapper again.  Time is counted in     *)
(*               ticks, and a timer fires at its due tick.                 *)
(* SpecEscape    one call of escapeAttr on a text.                         *)
(* SpecSignal    one call of Icons.forSignalType on a protocol label.      *)
(* SpecStore     sequences of setStorageItem / getStorageItem on           *)
(*               localStorage, with JSON.stringify and JSON.parse.         *)
(* SpecCalls     one call of a utility function with an argument of any    *)
(*               JavaScript type, completing by return or by throw.        *)
(* SpecDistance  calculateDistanceNm / calculateDistanceKm on a grid of    *)
(*               coordinates where the haversine terms are rational.       *)
(***************************************************************************)
EXTENDS Integers, Sequences, FiniteSets

VARIABLES
    now,         \* host clock, in ticks
    timers,      \* host timer table: the pending timers
    nextId,      \* next handle setTimeout returns
    timeout,     \* debounce: closure variable `timeout` (0 = undefined)
    inThrottle,  \* throttle: closure variable `inThrottle` (undefined = FALSE)
    calls,       \* number of wrapper calls made by the event loop so far
    dHist,       \* debounce: observation of calls and invocations of func
    tHist,       \* throttle: observation of the latest call and invocation of func
    pc,          \* a single call of a pure function: "ready" before, "done" after
    escIn,       \* escapeAttr: the argument `text`
    escOut,      \* escapeAttr: the returned string
    sigIn,       \* Icons.forSignalType: the argument `type`
    sigOut,      \* Icons.forSignalType: the returned icon
    store,       \* localStorage: key -> stored text, or no item
    lastSet,     \* per key, the value of the latest setStorageItem, if any
    lastGet,     \* the latest getStorageItem: key, default, result, store before
    callFn,      \* a call of a utility function: the function
    callArg,     \* ... its argument
    callOut,     \* ... and how it completed: returned value, or thrown
    distIn,      \* calculateDistanceNm/Km: the two points
    distOut      \* calculateDistanceNm/Km: the results for the points and swapped

rateVars == <<now, timers, nextId, timeout, inThrottle, calls, dHist, tHist>>
escVars == <<escIn, escOut>>
sigVars == <<sigIn, sigOut>>
storeVars == <<store, lastSet, lastGet>>
callVars == <<callFn, callArg, callOut>>
distVars == <<distIn, distOut>>

pureVars == <<pc, escVars, sigVars, storeVars, callVars, distVars>>

vars == <<rateVars, pureVars>>

----------------------------------------------------------------------------
(* JavaScript values.  A string is a sequence of one-character strings.     *)
(* Every value is a record of the same shape, so that values of different   *)
(* types can be compared: t is the type, n the number, s the characters,    *)
(* items the elements of an array or the members of an object.              *)

JsUndefined == [t |-> "undefined", n |-> 0, s |-> <<>>, items |-> <<>>]
JsNull == [t |-> "null", n |-> 0, s |-> <<>>, items |-> <<>>]
JsString(chars) == [t |-> "string", n |-> 0, s |-> chars, items |-> <<>>]
JsNumber(k) == [t |-> "number", n |-> k, s |-> <<>>, items |-> <<>>]
JsNaN == [t |-> "nan", n |-> 0, s |-> <<>>, items |-> <<>>]
JsBoolean(b) == [t |-> "boolean", n |-> IF b THEN 1 ELSE 0, s |-> <<>>, items |-> <<>>]
JsArray(elems) == [t |-> "array", n |-> 0, s |-> <<>>, items |-> elems]
JsMember(key, value) == [t |-> "member", n |-> 0, s |-> key, items |-> <<value>>]
JsObject(members) == [t |-> "object", n |-> 0, s |-> <<>>, items |-> members]

\* All sequences over `alphabet` of length at most n.
RECURSIVE StringsUpTo(_, _)
StringsUpTo(alphabet, n) ==
    IF n = 0
    THEN {<<>>}
    ELSE LET shorter == StringsUpTo(alphabet, n - 1)
         IN shorter \cup {<<c>> \o w : c \in alphabet, w \in {x \in shorter : Len(x) = n - 1}}

\* String.prototype.replace(/c/g, rep): every occurrence of the character c
\* is replaced by rep, left to right.
RECURSIVE replaceAll(_, _, _)
replaceAll(str, c, rep) ==
    IF str = <<>>
    THEN <<>>
    ELSE (IF Head(str) = c THEN rep ELSE <<Head(str)>>) \o replaceAll(Tail(str), c, rep)

StartsWithAt(str, i, word) ==
    /\ i + Len(word) - 1 <= Len(str)
    /\ SubSeq(str, i, i + Len(word) - 1) = word

\* String.prototype.includes(word)
RECURSIVE includes(_, _)
includes(str, word) ==
    IF Len(word) > Len(str)
    THEN FALSE
    ELSE StartsWithAt(str, 1, word) \/ includes(Tail(str), word)

Digit == [d \in 0..9 |-> CASE d = 0 -> "0" [] d = 1 -> "1" [] d = 2 -> "2" [] d = 3 -> "3"
                            [] d = 4 -> "4" [] d = 5 -> "5" [] d = 6 -> "6" [] d = 7 -> "7"
                            [] d = 8 -> "8" [] d = 9 -> "9"]

RECURSIVE NatToString(_)
NatToString(k) ==
    IF k < 10 THEN <<Digit[k]>> ELSE NatToString(k \div 10) \o <<Digit[k % 10]>>

\* Number.prototype.toString of an integer
IntToString(k) == IF k < 0 THEN <<"-">> \o NatToString(0 - k) ELSE NatToString(k)

\* String(value): of a primitive, of an array (its elements joined by
\* commas, null and undefined as the empty string), of a plain object
RECURSIVE StringOf(_)
RECURSIVE JoinItems(_)
JoinItems(items) ==
    IF items = <<>>
    THEN <<>>
    ELSE (IF Head(items).t \in {"null", "undefined"} THEN <<>> ELSE StringOf(Head(items)))
             \o (IF Len(items) > 1 THEN <<",">> ELSE <<>>)
             \o JoinItems(Tail(items))

StringOf(v) ==
    CASE v.t = "string" -> v.s
      [] v.t = "number" -> IntToString(v.n)
      [] v.t = "nan" -> <<"N", "a", "N">>
      [] v.t = "boolean" -> (IF v.n = 1 THEN <<"t", "r", "u", "e">> ELSE <<"f", "a", "l", "s", "e">>)
      [] v.t = "null" -> <<"n", "u", "l", "l">>
      [] v.t = "undefined" -> <<"u", "n", "d", "e", "f", "i", "n", "e", "d">>
      [] v.t = "array" -> JoinItems(v.items)
      [] v.t = "object" -> <<"[", "o", "b", "j", "e", "c", "t", " ", "O", "b", "j", "e", "c", "t", "]">>

----------------------------------------------------------------------------
(* escapeAttr(text): lines 24-33 *)

escapeAttrAmpersandLast(text) ==
    IF text.t = "null" \/ text.t = "undefined"
    THEN <<>>
    ELSE LET s0 == StringOf(text)
             s2 == replaceAll(s0, "'", <<"&", "#", "3", "9", ";">>)
             s3 == replaceAll(s2, "\"", <<"&", "q", "u", "o", "t", ";">>)
             s4 == replaceAll(s3, "<", <<"&", "l", "t", ";">>)
             s5 == replaceAll(s4, ">", <<"&", "g", "t", ";">>)
         IN replaceAll(s5, "&", <<"&", "a", "m", "p", ";">>)

escapeAttr(text) ==
    IF text.t = "null" \/ text.t = "undefined"
    THEN <<>>
    ELSE LET s0 == StringOf(text)
             s1 == replaceAll(s0, "&", <<"&", "a", "m", "p", ";">>)
             s2 == replaceAll(s1, "'", <<"&", "#", "3", "9", ";">>)
             s3 == replaceAll(s2, "\"", <<"&", "q", "u", "o", "t", ";">>)
             s4 == replaceAll(s3, "<", <<"&", "l", "t", ";">>)
             s5 == replaceAll(s4, ">", <<"&", "g", "t", ";">>)
         IN s5

MaxTextLen == 4

TextAlphabet == {"&", "'", "\"", "<", ">", "l", "t", ";"}

EscInputs ==
    {JsNull, JsUndefined, JsNumber(39), JsBoolean(TRUE)}
        \cup {JsString(w) : w \in StringsUpTo(TextAlphabet, MaxTextLen)}

EscapeAttrCall ==
    /\ pc = "ready"
    /\ escOut' = escapeAttr(escIn)
    /\ pc' = "done"
    /\ UNCHANGED <<rateVars, escIn, sigVars, storeVars, callVars, distVars>>

----------------------------------------------------------------------------
(* Icons.forSignalType(type, className): lines 382-394 *)

LowerOf == [c \in {"W", "I", "F", "B", "T", "L", "E", "G", "S", "M"} |->
               CASE c = "W" -> "w" [] c = "I" -> "i" [] c = "F" -> "f" [] c = "B" -> "b"
                 [] c = "T" -> "t" [] c = "L" -> "l" [] c = "E" -> "e" [] c = "G" -> "g"
                 [] c = "S" -> "s" [] c = "M" -> "m"]

\* String.prototype.toLowerCase
toLowerCase(str) ==
    [i \in 1..Len(str) |-> IF str[i] \in DOMAIN LowerOf THEN LowerOf[str[i]] ELSE str[i]]

\* The icon functions wifi, bluetooth, cellular, signalUnknown (lines 283-328):
\* one fixed template each, identified by its class and aria-label.
Icon(name, label, className) == [icon |-> name, label |-> label, className |-> className]
wifi(className) == Icon("icon-wifi", "WiFi", className)
bluetooth(className) == Icon("icon-bluetooth", "Bluetooth", className)
cellular(className) == Icon("icon-cellular", "Cellular", className)
signalUnknown(className) == Icon("icon-signal-unknown", "Unknown signal", className)

\* type || ''
OrEmpty(type) ==
    IF type.t \in {"null", "undefined", "nan"} \/ (type.t = "number" /\ type.n = 0)
          \/ (type.t = "boolean" /\ type.n = 0)
    THEN <<>>
    ELSE type.s

forSignalTypeBluetoothFirst(type, className) ==
    LET t == toLowerCase(OrEmpty(type))
    IN IF includes(t, <<"b", "l", "u", "e", "t", "o", "o", "t", "h">>) \/ includes(t, <<"b", "t">>)
             \/ includes(t, <<"b", "l", "e">>)
       THEN bluetooth(className)
       ELSE IF includes(t, <<"w", "i", "f", "i">>) \/ includes(t, <<"8", "0", "2", ".", "1", "1">>)
       THEN wifi(className)
       ELSE IF includes(t, <<"c", "e", "l", "l", "u", "l", "a", "r">>) \/ includes(t, <<"l", "t", "e">>)
                 \/ includes(t, <<"g", "s", "m">>) \/ includes(t, <<"5", "g">>)
       THEN cellular(className)
       ELSE signalUnknown(className)

forSignalType(type, className) ==
    LET t == toLowerCase(OrEmpty(type))
    IN IF includes(t, <<"w", "i", "f", "i">>) \/ includes(t, <<"8", "0", "2", ".", "1", "1">>)
       THEN wifi(className)
       ELSE IF includes(t, <<"b", "l", "u", "e", "t", "o", "o", "t", "h">>) \/ includes(t, <<"b", "t">>)
                 \/ includes(t, <<"b", "l", "e">>)
       THEN bluetooth(className)
       ELSE IF includes(t, <<"c", "e", "l", "l", "u", "l", "a", "r">>) \/ includes(t, <<"l", "t", "e">>)
                 \/ includes(t, <<"g", "s", "m">>) \/ includes(t, <<"5", "g">>)
       THEN cellular(className)
       ELSE signalUnknown(className)

\* Protocol labels are built from at most MaxLabelParts of these fragments:
\* the keywords in both cases, and pieces that join into a keyword or miss one.
MaxLabelParts == 2

LabelParts ==
    {<<"w", "i", "f", "i">>,
     <<"W", "i", "F", "i">>,
     <<"W", "I", "F", "I">>,
     <<"8", "0", "2", ".", "1", "1">>,
     <<"8", "0", "2", ".", "1">>,
     <<"1">>,
     <<"b", "l", "u", "e", "t", "o", "o", "t", "h">>,
     <<"B", "l", "u", "e", "T", "o", "o", "t", "h">>,
     <<"b", "t">>,
     <<"B", "T">>,
     <<"b", "l", "e">>,
     <<"B", "L", "E">>,
     <<"b">>,
     <<"t">>,
     <<"l", "e">>,
     <<"c", "e", "l", "l", "u", "l", "a", "r">>,
     <<"l", "t", "e">>,
     <<"L", "T", "E">>,
     <<"g", "s", "m">>,
     <<"G", "S", "M">>,
     <<"5", "g">>,
     <<"5", "G">>,
     <<"5">>,
     <<"g">>,
     <<"w", "i">>,
     <<"f", "i">>,
     <<"-">>,
     <<" ">>,
     <<"l", "t">>,
     <<"e">>}

RECURSIVE Labels(_)
Labels(n) ==
    IF n = 0
    THEN {<<>>}
    ELSE LET shorter == Labels(n - 1)
         IN shorter \cup {w \o part : w \in shorter, part \in LabelParts}

SigInputs == {JsNull, JsUndefined} \cup {JsString(w) : w \in Labels(MaxLabelParts)}

ForSignalTypeCall ==
    /\ pc = "ready"
    /\ sigOut' = forSignalType(sigIn, "")
    /\ pc' = "done"
    /\ UNCHANGED <<rateVars, escVars, sigIn, storeVars, callVars, distVars>>

----------------------------------------------------------------------------
(* JSON.stringify and JSON.parse, on the values of the model: null, booleans, *)
(* integers, strings, arrays, objects.  Numbers are integers: a number with   *)
(* a fraction or an exponent is outside the grammar modelled here, and no     *)
(* stored text of the model contains one.                                     *)

\* The quoted form of a string: " and \ are escaped with a backslash.
RECURSIVE QuoteChars(_)
QuoteChars(str) ==
    IF str = <<>>
    THEN <<>>
    ELSE (IF Head(str) = "\"" \/ Head(str) = "\\" THEN <<"\\", Head(str)>> ELSE <<Head(str)>>)
             \o QuoteChars(Tail(str))

Quote(str) == <<"\"">> \o QuoteChars(str) \o <<"\"">>

RECURSIVE JSONstringify(_)
RECURSIVE StringifyItems(_)
StringifyItems(items) ==
    IF items = <<>>
    THEN <<>>
    ELSE JSONstringify(Head(items))
             \o (IF Len(items) > 1 THEN <<",">> ELSE <<>>)
             \o StringifyItems(Tail(items))

JSONstringify(v) ==
    CASE v.t = "null" -> <<"n", "u", "l", "l">>
      [] v.t = "nan" -> <<"n", "u", "l", "l">>
      [] v.t = "boolean" -> StringOf(v)
      [] v.t = "number" -> IntToString(v.n)
      [] v.t = "string" -> Quote(v.s)
      [] v.t = "array" -> <<"[">> \o StringifyItems(v.items) \o <<"]">>
      [] v.t = "member" -> Quote(v.s) \o <<":">> \o JSONstringify(v.items[1])
      [] v.t = "object" -> <<"{">> \o StringifyItems(v.items) \o <<"}">>

ParseFail == [ok |-> FALSE, v |-> JsUndefined, next |-> 0]
ParseOk(v, next) == [ok |-> TRUE, v |-> v, next |-> next]

CharAt(str, i) == IF i >= 1 /\ i <= Len(str) THEN str[i] ELSE ""

IsDigit(c) == c \in {"0", "1", "2", "3", "4", "5", "6", "7", "8", "9"}

DigitValue(c) == CHOOSE d \in 0..9 : Digit[d] = c

RECURSIVE SkipWs(_, _)
SkipWs(str, i) == IF CharAt(str, i) = " " THEN SkipWs(str, i + 1) ELSE i

\* The first index from i on that holds no digit.
RECURSIVE DigitsEnd(_, _)
DigitsEnd(str, i) == IF IsDigit(CharAt(str, i)) THEN DigitsEnd(str, i + 1) ELSE i

RECURSIVE StringToNat(_)
StringToNat(digits) ==
    IF digits = <<>>
    THEN 0
    ELSE 10 * StringToNat(SubSeq(digits, 1, Len(digits) - 1)) + DigitValue(digits[Len(digits)])

\* number: -? ( 0 | [1-9][0-9]* )
ParseNumber(str, i) ==
    LET neg == CharAt(str, i) = "-"
        j == IF neg THEN i + 1 ELSE i
        end == IF CharAt(str, j) = "0" THEN j + 1 ELSE DigitsEnd(str, j)
        k == StringToNat(SubSeq(str, j, end - 1))
    IN IF end = j \/ CharAt(str, end) \in {".", "e", "E"}
       THEN ParseFail
       ELSE ParseOk(JsNumber(IF neg THEN 0 - k ELSE k), end)

\* string: the characters up to the closing quote; \" \\ \/ are unescaped
RECURSIVE ScanString(_, _, _)
ScanString(str, i, acc) ==
    LET c == CharAt(str, i)
    IN IF i > Len(str)
       THEN ParseFail
       ELSE IF c = "\""
       THEN ParseOk(JsString(acc), i + 1)
       ELSE IF c = "\\"
       THEN IF CharAt(str, i + 1) \in {"\"", "\\", "/"}
            THEN ScanString(str, i + 2, Append(acc, CharAt(str, i + 1)))
            ELSE ParseFail
       ELSE ScanString(str, i + 1, Append(acc, c))

RECURSIVE ParseValue(_, _)
RECURSIVE ParseElements(_, _, _)
RECURSIVE ParseMembers(_, _, _)

\* elements: value ( , value )* ]
ParseElements(str, i, acc) ==
    LET r == ParseValue(str, i)
        k == SkipWs(str, r.next)
    IN IF ~r.ok
       THEN ParseFail
       ELSE IF CharAt(str, k) = ","
       THEN ParseElements(str, SkipWs(str, k + 1), Append(acc, r.v))
       ELSE IF CharAt(str, k) = "]"
       THEN ParseOk(JsArray(Append(acc, r.v)), k + 1)
       ELSE ParseFail

\* members: string : value ( , string : value )* }
ParseMembers(str, i, acc) ==
    LET key == IF CharAt(str, i) = "\"" THEN ScanString(str, i + 1, <<>>) ELSE ParseFail
        colon == SkipWs(str, key.next)
        r == ParseValue(str, SkipWs(str, colon + 1))
        k == SkipWs(str, r.next)
    IN IF ~key.ok \/ CharAt(str, colon) # ":"
       THEN ParseFail
       ELSE IF ~r.ok
       THEN ParseFail
       ELSE IF CharAt(str, k) = ","
       THEN ParseMembers(str, SkipWs(str, k + 1), Append(acc, JsMember(key.v.s, r.v)))
       ELSE IF CharAt(str, k) = "}"
       THEN ParseOk(JsObject(Append(acc, JsMember(key.v.s, r.v))), k + 1)
       ELSE ParseFail

ParseValue(str, i) ==
    LET c == CharAt(str, i)
    IN CASE StartsWithAt(str, i, <<"n", "u", "l", "l">>) -> ParseOk(JsNull, i + 4)
         [] StartsWithAt(str, i, <<"t", "r", "u", "e">>) -> ParseOk(JsBoolean(TRUE), i + 4)
         [] StartsWithAt(str, i, <<"f", "a", "l", "s", "e">>) -> ParseOk(JsBoolean(FALSE), i + 5)
         [] c = "-" \/ IsDigit(c) -> ParseNumber(str, i)
         [] c = "\"" -> ScanString(str, i + 1, <<>>)
         [] c = "[" ->
              (IF CharAt(str, SkipWs(str, i + 1)) = "]"
               THEN ParseOk(JsArray(<<>>), SkipWs(str, i + 1) + 1)
               ELSE ParseElements(str, SkipWs(str, i + 1), <<>>))
         [] c = "{" ->
              (IF CharAt(str, SkipWs(str, i + 1)) = "}"
               THEN ParseOk(JsObject(<<>>), SkipWs(str, i + 1) + 1)
               ELSE ParseMembers(str, SkipWs(str, i + 1), <<>>))
         [] OTHER -> ParseFail

\* JSON.parse(text): the value, or a SyntaxError (ok = FALSE)
JSONparse(str) ==
    LET r == ParseValue(str, SkipWs(str, 1))
    IN IF r.ok /\ SkipWs(str, r.next) = Len(str) + 1 THEN r ELSE ParseFail

----------------------------------------------------------------------------
(* localStorage helpers: getStorageItem (174-182), setStorageItem (189-195) *)

NoItem == [present |-> FALSE, text |-> <<>>]
Item(text) == [present |-> TRUE, text |-> text]

\* localStorage.getItem(key) is null for a missing key
getStorageItem(st, key, defaultValue) ==
    LET saved == st[key]
    IN IF ~saved.present
       THEN defaultValue
       ELSE IF JSONparse(saved.text).ok
       THEN JSONparse(saved.text).v
       ELSE JsString(saved.text)

\* typeof value === 'object' holds of null, arrays and objects
TypeofObject(value) == value.t \in {"null", "array", "object"}

setStorageItemNoStringify(st, key, value) ==
    [st EXCEPT ![key] = Item(StringOf(value))]

\* localStorage.setItem(key, value) stores String(value)
setStorageItem(st, key, value) ==
    IF TypeofObject(value)
    THEN [st EXCEPT ![key] = Item(JSONstringify(value))]
    ELSE [st EXCEPT ![key] = Item(StringOf(value))]

Keys == {"k1", "k2"}

MaxArrayLen == 2

\* Values stored and read back: JSON values.  Among the strings are texts
\* that are JSON themselves.
StoredStrings ==
    {<<>>,
     <<"a", "b">>,
     <<"5">>,
     <<"t", "r", "u", "e">>,
     <<"n", "u", "l", "l">>,
     <<"\"", "a", "b", "\"">>,
     <<"[", "5", "]">>,
     <<"{", "}">>,
     <<" ", "1", "2", " ">>,
     <<"0", "5">>,
     <<"[", "5">>,
     <<"a", "\"", "b">>,
     <<"-">>}

StoredScalars ==
    {JsNull, JsBoolean(TRUE), JsNumber(0), JsNumber(-12)}
        \cup {JsString(w) : w \in StoredStrings}

ArrayElements == {JsNumber(5), JsString(<<"a", "\"", "\\">>), JsNull}

RECURSIVE ArraysUpTo(_)
ArraysUpTo(n) ==
    IF n = 0
    THEN {<<>>}
    ELSE LET shorter == ArraysUpTo(n - 1)
         IN shorter \cup {Append(a, e) : a \in {x \in shorter : Len(x) = n - 1},
                                         e \in ArrayElements}

StoredValues ==
    StoredScalars
        \cup {JsArray(a) : a \in ArraysUpTo(MaxArrayLen)}
        \cup {JsObject(<<>>),
              JsObject(<<JsMember(<<"a">>, JsNumber(1))>>),
              JsObject(<<JsMember(<<"a">>, JsString(<<"a", "\"", "\\">>)),
                         JsMember(<<"b">>, JsArray(<<JsBoolean(FALSE)>>))>>),
              JsArray(<<JsObject(<<JsMember(<<"a">>, JsArray(<<>>))>>)>>)}

Defaults == {JsNull, JsString(<<"d">>)}

SetStorageItemCall(key, value) ==
    /\ store' = setStorageItem(store, key, value)
    /\ lastSet' = [lastSet EXCEPT ![key] = [written |-> TRUE, v |-> value]]
    /\ lastGet' = [done |-> FALSE, key |-> "k1", default |-> JsNull, ret |-> JsNull,
                   before |-> store']
    /\ UNCHANGED <<rateVars, pc, escVars, sigVars, callVars, distVars>>

GetStorageItemCall(key, defaultValue) ==
    /\ lastGet' = [done |-> TRUE, key |-> key, default |-> defaultValue,
                   ret |-> getStorageItem(store, key, defaultValue), before |-> store]
    /\ UNCHANGED <<rateVars, pc, escVars, sigVars, store, lastSet, callVars, distVars>>

----------------------------------------------------------------------------
(* calculateDistanceNm (97-106) and calculateDistanceKm (116-125).           *)
(* Coordinates are whole multiples of 90 degrees, where every term of the    *)
(* haversine formula is rational: a is kept doubled, the central angle c is  *)
(* counted in quarter turns (pi/2), so a distance is an integer multiple of *)
(* the radius, in units of pi/2 (nautical miles in thousandths: 3440.065).   *)
(* NaN is the number -1.                                                     *)

RadiusNm == 3440065
RadiusKm == 6371

NaNDistance == 0 - 1

\* 2 * Math.sin(d/2) * Math.sin(d/2) for d degrees, which is 1 - cos d
SinHalfSquared2(d) ==
    CASE d % 360 = 0 -> 0
      [] d % 360 = 90 -> 1
      [] d % 360 = 180 -> 2
      [] d % 360 = 270 -> 1

\* Math.cos(lat * Math.PI / 180)
CosDeg(lat) ==
    CASE lat % 360 = 0 -> 1
      [] lat % 360 = 90 -> 0
      [] lat % 360 = 180 -> -1
      [] lat % 360 = 270 -> 0

\* 2 * Math.atan2(Math.sqrt(a), Math.sqrt(1 - a)) in quarter turns, for the
\* doubled a; outside [0, 1] a square root is NaN.
CentralAngle(a2) ==
    CASE a2 = 0 -> 0
      [] a2 = 1 -> 1
      [] a2 = 2 -> 2
      [] OTHER -> NaNDistance

HaversineA2(lat1, lon1, lat2, lon2) ==
    LET dLat == lat2 - lat1
        dLon == lon2 - lon1
    IN SinHalfSquared2(dLat) + CosDeg(lat1) * CosDeg(lat2) * SinHalfSquared2(dLon)

calculateDistanceNm(lat1, lon1, lat2, lon2) ==
    LET c == CentralAngle(HaversineA2(lat1, lon1, lat2, lon2))
    IN IF c = NaNDistance THEN NaNDistance ELSE RadiusNm * c

calculateDistanceKmFirstLatitudeTwice(lat1, lon1, lat2, lon2) ==
    LET dLat == lat2 - lat1
        dLon == lon2 - lon1
        a2 == SinHalfSquared2(dLat) + CosDeg(lat1) * CosDeg(lat1) * SinHalfSquared2(dLon)
        c == CentralAngle(a2)
    IN IF c = NaNDistance THEN NaNDistance ELSE RadiusKm * c

calculateDistanceKm(lat1, lon1, lat2, lon2) ==
    LET dLat == lat2 - lat1
        dLon == lon2 - lon1
        a2 == SinHalfSquared2(dLat) + CosDeg(lat1) * CosDeg(lat2) * SinHalfSquared2(dLon)
        c == CentralAngle(a2)
    IN IF c = NaNDistance THEN NaNDistance ELSE RadiusKm * c

Latitudes == {-90, 0, 90}
Longitudes == {-180, -90, 0, 90, 180}

DistInputs ==
    [lat1 : Latitudes, lon1 : Longitudes, lat2 : Latitudes, lon2 : Longitudes]

NoDistances == [nm |-> 0, km |-> 0, nmSwapped |-> 0, kmSwapped |-> 0]

DistanceCall ==
    /\ pc = "ready"
    /\ distOut' =
          [nm |-> calculateDistanceNm(distIn.lat1, distIn.lon1, distIn.lat2, distIn.lon2),
           km |-> calculateDistanceKm(distIn.lat1, distIn.lon1, distIn.lat2, distIn.lon2),
           nmSwapped |-> calculateDistanceNm(distIn.lat2, distIn.lon2, distIn.lat1, distIn.lon1),
           kmSwapped |-> calculateDistanceKm(distIn.lat2, distIn.lon2, distIn.lat1, distIn.lon1)]
    /\ pc' = "done"
    /\ UNCHANGED <<rateVars, escVars, sigVars, storeVars, callVars, distIn>>

----------------------------------------------------------------------------
(* Calls of the utility functions with arguments of any type.  A call either *)
(* returns a value or throws (a TypeError or RangeError of the host).        *)

Returned(v) == [threw |-> FALSE, v |-> v]
Thrown == [threw |-> TRUE, v |-> JsUndefined]

JsDate(secondsOfDay) == [t |-> "date", n |-> secondsOfDay, s |-> <<>>, items |-> <<>>]
JsInvalidDate == [t |-> "invalid date", n |-> 0, s |-> <<>>, items |-> <<>>]

\* !value
Falsy(v) ==
    \/ v.t \in {"null", "undefined", "nan"}
    \/ (v.t \in {"number", "boolean"} /\ v.n = 0)
    \/ (v.t = "string" /\ v.s = <<>>)

IsHex(c) ==
    IsDigit(c) \/ c \in {"A", "B", "C", "D", "E", "F", "a", "b", "c", "d", "e", "f"}

\* /^([0-9A-Fa-f]{2}:){5}[0-9A-Fa-f]{2}$/.test(mac): line 43
isValidMac(mac) ==
    LET str == StringOf(mac)
    IN /\ Len(str) = 17
       /\ \A i \in 1..17 : IF i % 3 = 0 THEN str[i] = ":" ELSE IsHex(str[i])

\* parseInt(value, 10): leading blanks, a sign, then digits; NaN without digits
parseInt(value) ==
    LET str == StringOf(value)
        i == SkipWs(str, 1)
        neg == CharAt(str, i) = "-"
        j == IF CharAt(str, i) \in {"-", "+"} THEN i + 1 ELSE i
        end == DigitsEnd(str, j)
        k == StringToNat(SubSeq(str, j, end - 1))
    IN IF end = j THEN JsNaN ELSE JsNumber(IF neg THEN 0 - k ELSE k)

\* lines 51-54
isValidChannel(ch) ==
    LET num == parseInt(ch)
    IN num.t # "nan" /\ num.n >= 1 /\ num.n <= 200

\* str.replace(/[^\d.-]/g, '')
RECURSIVE StripNonNumeric(_)
StripNonNumeric(str) ==
    IF str = <<>>
    THEN <<>>
    ELSE (IF IsDigit(Head(str)) \/ Head(str) \in {".", "-"} THEN <<Head(str)>> ELSE <<>>)
             \o StripNonNumeric(Tail(str))

RECURSIVE StripTrailingZeros(_)
StripTrailingZeros(digits) ==
    IF digits # <<>> /\ digits[Len(digits)] = "0"
    THEN StripTrailingZeros(SubSeq(digits, 1, Len(digits) - 1))
    ELSE digits

\* parseFloat(str) of a string of digits, dots and minus signs: the longest
\* prefix  -? digits ( . digits? )?  or  -? . digits ; NaN when it has no
\* digit.  The number is its integer part n with the fraction digits in s
\* (trailing zeros dropped, after a "-" when the number is negative).
parseFloat(str) ==
    LET neg == CharAt(str, 1) = "-"
        j == IF neg THEN 2 ELSE 1
        intEnd == DigitsEnd(str, j)
        hasDot == CharAt(str, intEnd) = "."
        fracEnd == IF hasDot THEN DigitsEnd(str, intEnd + 1) ELSE intEnd
        frac == IF hasDot THEN StripTrailingZeros(SubSeq(str, intEnd + 1, fracEnd - 1)) ELSE <<>>
        k == StringToNat(SubSeq(str, j, intEnd - 1))
    IN IF intEnd = j /\ (~hasDot \/ fracEnd = intEnd + 1)
       THEN JsNaN
       ELSE [t |-> "number", n |-> IF neg THEN 0 - k ELSE k,
             s |-> IF frac # <<>> /\ neg THEN <<"-">> \o frac ELSE frac, items |-> <<>>]

\* lines 162-164: freqStr.replace is a function only when freqStr is a string
parseFrequency(freqStr) ==
    IF freqStr.t # "string"
    THEN Thrown
    ELSE Returned(parseFloat(StripNonNumeric(freqStr.s)))

\* str.split(':')
RECURSIVE Split(_, _)
Split(str, acc) ==
    IF str = <<>>
    THEN <<acc>>
    ELSE IF Head(str) = ":"
    THEN <<acc>> \o Split(Tail(str), <<>>)
    ELSE Split(Tail(str), Append(acc, Head(str)))

Part(parts, i) == IF i <= Len(parts) THEN JsString(parts[i]) ELSE JsUndefined

\* lines 63-75.  clock is `now` in seconds since local midnight; skew is 1
\* when the second `new Date()` reads a later millisecond than the first.
getRelativeTime(timestamp, clock, skew) ==
    IF Falsy(timestamp)
    THEN Returned(JsString(<<>>))
    ELSE IF timestamp.t # "string"
    THEN Thrown
    ELSE LET parts == Split(timestamp.s, <<>>)
             h == parseInt(Part(parts, 1))
             m == parseInt(Part(parts, 2))
             sec == parseInt(Part(parts, 3))
             diff == clock - (h.n * 3600 + m.n * 60 + sec.n) - skew
         IN IF h.t = "nan" \/ m.t = "nan" \/ sec.t = "nan"
            THEN Returned(timestamp)
            ELSE IF diff < 5
            THEN Returned(JsString(<<"j", "u", "s", "t", " ", "n", "o", "w">>))
            ELSE IF diff < 60
            THEN Returned(JsString(IntToString(diff) \o <<"s", " ", "a", "g", "o">>))
            ELSE IF diff < 3600
            THEN Returned(JsString(IntToString(diff \div 60) \o <<"m", " ", "a", "g", "o">>))
            ELSE Returned(timestamp)

Pad2(k) == IF k < 10 THEN <<"0">> \o NatToString(k) ELSE NatToString(k)

\* lines 82-84: date.toISOString().substring(11, 19)
formatUtcTime(date) ==
    IF date.t = "invalid date" \/ date.t # "date"
    THEN Thrown
    ELSE Returned(JsString(Pad2(date.n \div 3600) \o <<":">> \o Pad2((date.n \div 60) % 60)
                               \o <<":">> \o Pad2(date.n % 60)))

\* forSignalType with any argument: (type || '').toLowerCase is a function
\* only when type || '' is a string
forSignalTypeAny(type) ==
    IF ~Falsy(type) /\ type.t # "string"
    THEN Thrown
    ELSE Returned(JsString(<<forSignalType(type, "").label>>))

Primitives ==
    {JsNull, JsUndefined, JsNaN, JsNumber(0), JsNumber(6), JsNumber(201),
     JsBoolean(TRUE), JsBoolean(FALSE)}
        \cup {JsString(w) : w \in {<<>>,
              <<"6">>,
              <<"2", "0", "1">>,
              <<"a", "b", "c">>,
              <<"A", "A", ":", "B", "B", ":", "C", "C", ":", "D", "D", ":", "E", "E", ":", "F", "F">>,
              <<"A", "A", ":", "B", "B", ":", "C", "C", ":", "D", "D", ":", "E", "E">>,
              <<"G", "G", ":", "B", "B", ":", "C", "C", ":", "D", "D", ":", "E", "E", ":", "F", "F">>,
              <<"1", "1", "8", ".", "0", "0", "0", " ", "M", "H", "z">>,
              <<"M", "H", "z">>,
              <<"1", "2", ":", "3", "0", ":", "0", "5">>,
              <<"1", "2", ":", "3", "0">>,
              <<"{", "b", "a", "d">>,
              <<"-", "1", ".", "5", "0">>,
              <<" ", "6", " ">>}}

Objects == {JsObject(<<>>), JsDate(45005), JsInvalidDate}

CallFunctions ==
    {"escapeAttr", "isValidMac", "isValidChannel", "getRelativeTime", "formatUtcTime",
     "parseFrequency", "forSignalType", "getStorageItem"}

\* The calls made: every function with every primitive; the functions whose
\* result does not depend on how an object is converted to a string also with
\* objects; getStorageItem with the argument as the text stored under its key.
CallInputs ==
    {c \in [fn : CallFunctions, arg : Primitives \cup Objects] :
        /\ c.arg \in Objects =>
              c.fn \in {"getRelativeTime", "formatUtcTime", "parseFrequency", "forSignalType"}
        /\ c.fn = "getStorageItem" => c.arg.t \in {"string", "undefined"}}

ClockTimes == {45008, 45035, 45605, 50000}

Outcome(fn, arg, clock, skew) ==
    CASE fn = "escapeAttr" -> Returned(JsString(escapeAttr(arg)))
      [] fn = "isValidMac" -> Returned(JsBoolean(isValidMac(arg)))
      [] fn = "isValidChannel" -> Returned(JsBoolean(isValidChannel(arg)))
      [] fn = "getRelativeTime" -> getRelativeTime(arg, clock, skew)
      [] fn = "formatUtcTime" -> formatUtcTime(arg)
      [] fn = "parseFrequency" -> parseFrequency(arg)
      [] fn = "forSignalType" -> forSignalTypeAny(arg)
      [] fn = "getStorageItem" ->
           Returned(getStorageItem(
               [k \in Keys |-> IF k = "k1" /\ arg.t = "string" THEN Item(arg.s) ELSE NoItem],
               "k1", JsNull))

UtilityCall(skew) ==
    /\ pc = "ready"
    /\ callOut' = Outcome(callFn, callArg, now, skew)
    /\ pc' = "done"
    /\ UNCHANGED <<rateVars, escVars, sigVars, storeVars, callFn, callArg, distVars>>

----------------------------------------------------------------------------
(* Bounds and parameters of the rate-limiter model *)

MaxTime == 6
MaxCalls == 3
MaxDepth == 1
Wait == 3
Limit == 3

Args == {"a", "b"}

None == 0 - 1

----------------------------------------------------------------------------
(* Host timers *)

setTimeout(ts, id, owner, delay, args) ==
    ts \cup {[id |-> id, owner |-> owner, due |-> now + delay, args |-> args]}

clearTimeout(ts, id) == {t \in ts : t.id # id}

\* The timer the event loop runs next: due, earliest first, creation order
\* among equals.
IsNextDue(t) ==
    /\ t \in timers
    /\ t.due <= now
    /\ \A u \in timers :
          u.due <= now => (t.due < u.due \/ (t.due = u.due /\ t.id <= u.id))

----------------------------------------------------------------------------
(* What the wrapped function does when invoked: a finite sequence of steps. *)
(* <<"return">> and <<"throw">> end the invocation; a "reenter" step calls  *)
(* the wrapper from inside func with the given arguments and continues.     *)

RECURSIVE Behaviours(_)
Behaviours(d) ==
    IF d = 0
    THEN {<<[kind |-> "return", arg |-> "a"]>>, <<[kind |-> "throw", arg |-> "a"]>>}
    ELSE Behaviours(0) \cup
         {<<[kind |-> "reenter", arg |-> a]>> \o b : a \in Args, b \in Behaviours(d - 1)}

----------------------------------------------------------------------------
(* debounce(func, wait) *)

\* Observation of a call of the debounced wrapper: its time and arguments, and
\* the burst it belongs to (a call less than Wait after the previous one
\* continues the burst).
Called(h, args) ==
    LET cont == h.callT # None /\ now - h.callT < Wait
    IN [h EXCEPT !.callT = now, !.callArgs = args, !.firedSince = 0,
                 !.burst = IF cont THEN @ + 1 ELSE 1,
                 !.burstStart = IF cont THEN @ ELSE now]

\* Observation of an invocation of func: its time and arguments, and the call
\* that was the latest one when it happened.
Fired(h, args) ==
    [h EXCEPT !.fireT = now, !.fireArgs = args,
              !.fireCallT = h.callT, !.fireCallArgs = h.callArgs,
              !.firedSince = @ + 1, !.total = @ + 1]

debounceMissingClear(st, args) ==
    [st EXCEPT !.timers = setTimeout(st.timers, st.nextId, "debounce", Wait, args),
               !.timeout = st.nextId,
               !.nextId = st.nextId + 1,
               !.hist = Called(st.hist, args)]

debounceShortDelay(st, args) ==
    LET cleared == clearTimeout(st.timers, st.timeout)
    IN [st EXCEPT !.timers = setTimeout(cleared, st.nextId, "debounce", Wait - 1, args),
                  !.timeout = st.nextId,
                  !.nextId = st.nextId + 1,
                  !.hist = Called(st.hist, args)]

\* executedFunction(...args) of debounce: lines 207-214
debounceExecutedFunction(st, args) ==
    LET cleared == clearTimeout(st.timers, st.timeout)
    IN [st EXCEPT !.timers = setTimeout(cleared, st.nextId, "debounce", Wait, args),
                  !.timeout = st.nextId,
                  !.nextId = st.nextId + 1,
                  !.hist = Called(st.hist, args)]

\* later(): clearTimeout(timeout); func(...args)
later(st, args, beh) ==
    LET st1 == [st EXCEPT !.timers = clearTimeout(st.timers, st.timeout)]
        st2 == [st1 EXCEPT !.hist = Fired(st1.hist, args)]
    IN IF Head(beh).kind = "reenter"
       THEN debounceExecutedFunction(st2, Head(beh).arg)
       ELSE st2

DebounceState == [timers |-> timers, nextId |-> nextId, timeout |-> timeout, hist |-> dHist]

DebounceCall(args) ==
    /\ calls < MaxCalls
    /\ LET st == debounceExecutedFunction(DebounceState, args)
       IN /\ timers' = st.timers
          /\ nextId' = st.nextId
          /\ timeout' = st.timeout
          /\ dHist' = st.hist
    /\ calls' = calls + 1
    /\ UNCHANGED <<now, inThrottle, tHist>>
    /\ UNCHANGED pureVars

DebounceTimerFire(t, beh) ==
    /\ IsNextDue(t)
    /\ t.owner = "debounce"
    /\ LET st == later([DebounceState EXCEPT !.timers = timers \ {t}], t.args, beh)
       IN /\ timers' = st.timers
          /\ nextId' = st.nextId
          /\ timeout' = st.timeout
          /\ dHist' = st.hist
    /\ UNCHANGED <<now, inThrottle, calls, tHist>>
    /\ UNCHANGED pureVars

----------------------------------------------------------------------------
(* throttle(func, limit) *)

\* executedFunction(...args) of throttle: lines 225-231.  Returns the state
\* after the call and whether the call threw.
RECURSIVE throttleExecutedFunction(_, _, _)
throttleExecutedFunction(st, args, beh) ==
    IF st.inThrottle
    THEN [st |-> [st EXCEPT !.hist = [@ EXCEPT !.callT = now, !.callArgs = args,
                                               !.lastLocked = TRUE,
                                               !.invokedForLast = FALSE]],
          threw |-> FALSE]
    ELSE LET invoked == [st EXCEPT !.hist = [@ EXCEPT !.callT = now, !.callArgs = args,
                                                      !.lastLocked = FALSE,
                                                      !.invokedForLast = TRUE,
                                                      !.fireT = now, !.fireArgs = args]]
             inner == IF Head(beh).kind = "reenter"
                      THEN throttleExecutedFunction(invoked, Head(beh).arg, Tail(beh))
                      ELSE [st |-> invoked, threw |-> Head(beh).kind = "throw"]
         IN IF inner.threw
            THEN inner
            ELSE [st |-> [inner.st EXCEPT
                             !.inThrottle = TRUE,
                             !.timers = setTimeout(inner.st.timers, inner.st.nextId,
                                                   "throttle", Limit, "a"),
                             !.nextId = inner.st.nextId + 1],
                  threw |-> FALSE]

ThrottleState == [timers |-> timers, nextId |-> nextId, inThrottle |-> inThrottle, hist |-> tHist]

ThrottleCall(args, beh) ==
    /\ calls < MaxCalls
    /\ LET r == throttleExecutedFunction(ThrottleState, args, beh)
       IN /\ timers' = r.st.timers
          /\ nextId' = r.st.nextId
          /\ inThrottle' = r.st.inThrottle
          /\ tHist' = r.st.hist
    /\ calls' = calls + 1
    /\ UNCHANGED <<now, timeout, dHist>>
    /\ UNCHANGED pureVars

\* () => inThrottle = false
ThrottleTimerFire(t) ==
    /\ IsNextDue(t)
    /\ t.owner = "throttle"
    /\ timers' = timers \ {t}
    /\ inThrottle' = FALSE
    /\ UNCHANGED <<now, nextId, timeout, calls, dHist, tHist>>
    /\ UNCHANGED pureVars

----------------------------------------------------------------------------
(* The clock advances only when no pending timer is due. *)

Tick ==
    /\ now < MaxTime
    /\ \A t \in timers : t.due > now
    /\ now' = now + 1
    /\ UNCHANGED <<timers, nextId, timeout, inThrottle, calls, dHist, tHist>>
    /\ UNCHANGED pureVars

----------------------------------------------------------------------------

RateStart ==
    /\ timers = {}
    /\ nextId = 1
    /\ timeout = 0
    /\ inThrottle = FALSE
    /\ calls = 0
    /\ dHist = [callT |-> None, callArgs |-> "a", fireT |-> None, fireArgs |-> "a",
                fireCallT |-> None, fireCallArgs |-> "a",
                firedSince |-> 0, total |-> 0, burst |-> 0, burstStart |-> None]
    /\ tHist = [callT |-> None, callArgs |-> "a", fireT |-> None, fireArgs |-> "a",
                lastLocked |-> FALSE, invokedForLast |-> FALSE]

EscStart == escIn = JsUndefined /\ escOut = <<>>
SigStart == sigIn = JsUndefined /\ sigOut = signalUnknown("")
StoreStart ==
    /\ store = [k \in Keys |-> NoItem]
    /\ lastSet = [k \in Keys |-> [written |-> FALSE, v |-> JsUndefined]]
    /\ lastGet = [done |-> FALSE, key |-> "k1", default |-> JsNull, ret |-> JsNull,
                  before |-> store]
CallStart == callFn = "escapeAttr" /\ callArg = JsUndefined /\ callOut = Returned(JsUndefined)
DistStart == distIn = [lat1 |-> 0, lon1 |-> 0, lat2 |-> 0, lon2 |-> 0] /\ distOut = NoDistances

\* debounce and throttle on the event loop
RateInit ==
    /\ now = 0 /\ RateStart
    /\ pc = "ready" /\ EscStart /\ SigStart /\ StoreStart /\ CallStart /\ DistStart

RateNext ==
    \/ \E a \in Args : DebounceCall(a)
    \/ \E t \in timers, b \in Behaviours(1) : DebounceTimerFire(t, b)  \* a re-entrant call of debounce does not nest
    \/ \E a \in Args, b \in Behaviours(MaxDepth) : ThrottleCall(a, b)
    \/ \E t \in timers : ThrottleTimerFire(t)
    \/ Tick

SpecRate == RateInit /\ [][RateNext]_vars

\* one call of escapeAttr
EscInit ==
    /\ escIn \in EscInputs /\ escOut = <<>>
    /\ now = 0 /\ RateStart
    /\ pc = "ready" /\ SigStart /\ StoreStart /\ CallStart /\ DistStart

SpecEscape == EscInit /\ [][EscapeAttrCall]_vars

\* one call of Icons.forSignalType
SigInit ==
    /\ sigIn \in SigInputs /\ sigOut = signalUnknown("")
    /\ now = 0 /\ RateStart
    /\ pc = "ready" /\ EscStart /\ StoreStart /\ CallStart /\ DistStart

SpecSignal == SigInit /\ [][ForSignalTypeCall]_vars

\* any sequence of setStorageItem and getStorageItem
StoreInit ==
    /\ now = 0 /\ RateStart
    /\ pc = "ready" /\ EscStart /\ SigStart /\ StoreStart /\ CallStart /\ DistStart

StoreNext ==
    \/ \E k \in Keys, v \in StoredValues : SetStorageItemCall(k, v)
    \/ \E k \in Keys, d \in Defaults : GetStorageItemCall(k, d)

SpecStore == StoreInit /\ [][StoreNext]_vars

\* one call of a utility function with an argument of any type
CallInit ==
    /\ \E c \in CallInputs : callFn = c.fn /\ callArg = c.arg
    /\ callOut = Returned(JsUndefined)
    /\ now \in ClockTimes /\ RateStart
    /\ pc = "ready" /\ EscStart /\ SigStart /\ StoreStart /\ DistStart

CallNext == \E skew \in {0, 1} : UtilityCall(skew)

SpecCalls == CallInit /\ [][CallNext]_vars

\* one call of each distance function, and of each with the points swapped
DistInit ==
    /\ distIn \in DistInputs /\ distOut = NoDistances
    /\ now = 0 /\ RateStart
    /\ pc = "ready" /\ EscStart /\ SigStart /\ StoreStart /\ CallStart

SpecDistance == DistInit /\ [][DistanceCall]_vars

----------------------------------------------------------------------------
(* Properties of the rate limiters *)

PendingOf(owner) == {t \in timers : t.owner = owner}

\* C1: after a burst of calls of the debounced wrapper, func is invoked
\* exactly once, exactly Wait after the last call, with the arguments of that
\* last call: no invocation happens less than Wait after the latest call, one
\* has happened once more than Wait has passed, and every invocation happens
\* Wait after the call that was the latest one, with that call's arguments.
C1_DebounceFiresOnceAfterLastCall ==
    /\ dHist.fireT # None =>
          /\ dHist.fireT = dHist.fireCallT + Wait
          /\ dHist.fireArgs = dHist.fireCallArgs
    /\ dHist.callT # None =>
          /\ dHist.firedSince <= 1
          /\ (now < dHist.callT + Wait => dHist.firedSince = 0)
          /\ (now > dHist.callT + Wait => dHist.firedSince = 1)
          /\ (dHist.firedSince = 1 =>
                 /\ dHist.fireT = dHist.callT + Wait
                 /\ dHist.fireArgs = dHist.callArgs)

\* A burst of three calls at three different times has been answered by its
\* single invocation, carrying the arguments "b" of the last call.
C1_Witness ==
    /\ dHist.burst >= 3
    /\ dHist.callT >= dHist.burstStart + 2
    /\ dHist.callArgs = "b"
    /\ dHist.firedSince = 1
    /\ dHist.total = 1

\* C3: func is invoked at most once per quiet period, and only when at least
\* Wait has passed since the latest call of the debounced wrapper: while the
\* gaps between calls stay shorter than Wait no step invokes func.
C3_DebounceOnlyAfterQuietPeriod ==
    [][dHist'.total # dHist.total =>
          /\ dHist.callT # None
          /\ now - dHist.callT >= Wait
          /\ dHist.firedSince = 0
          /\ dHist'.total = dHist.total + 1]_vars

\* Calls kept arriving for longer than Wait, each less than Wait after the
\* previous one, and func has not been invoked.
C3_Witness ==
    /\ dHist.burst >= 3
    /\ now > dHist.burstStart + Wait
    /\ dHist.total = 0

\* C2: a call of the throttled wrapper made while unlocked invokes func at
\* once with its arguments and locks the wrapper for Limit; calls made while
\* locked never invoke func; after Limit the lock has cleared.
C2_ThrottleLeadingCallLocks ==
    /\ tHist.callT # None =>
          IF tHist.lastLocked
          THEN ~tHist.invokedForLast
          ELSE /\ tHist.invokedForLast
               /\ tHist.fireT = tHist.callT /\ tHist.fireArgs = tHist.callArgs
    /\ (tHist.fireT # None /\ now < tHist.fireT + Limit) => inThrottle
    /\ inThrottle => (tHist.fireT # None /\ now <= tHist.fireT + Limit)

\* C4: each debounce instance and each throttle instance has at most one
\* pending timer of its own.
C4_AtMostOnePendingTimer ==
    /\ Cardinality(PendingOf("debounce")) <= 1
    /\ Cardinality(PendingOf("throttle")) <= 1

\* C10: the throttle instance is locked exactly when an unlock timer of it is
\* pending, and that timer is due Limit after the call that invoked func.
C10_LockedIffTimerPending ==
    /\ inThrottle <=> PendingOf("throttle") # {}
    /\ \A t \in PendingOf("throttle") : t.due = tHist.fireT + Limit

----------------------------------------------------------------------------
(* Properties of the pure functions *)

EntityRefs == {<<"&", "a", "m", "p", ";">>, <<"&", "#", "3", "9", ";">>, <<"&", "q", "u", "o", "t", ";">>, <<"&", "l", "t", ";">>, <<"&", "g", "t", ";">>}

EntityChar(ref) ==
    CASE ref = <<"&", "a", "m", "p", ";">> -> "&"
      [] ref = <<"&", "#", "3", "9", ";">> -> "'"
      [] ref = <<"&", "q", "u", "o", "t", ";">> -> "\""
      [] ref = <<"&", "l", "t", ";">> -> "<"
      [] ref = <<"&", "g", "t", ";">> -> ">"

\* Decoding of character references, once, left to right.
RECURSIVE Unescape(_)
Unescape(str) ==
    IF str = <<>>
    THEN <<>>
    ELSE IF \E ref \in EntityRefs : StartsWithAt(str, 1, ref)
    THEN LET ref == CHOOSE r \in EntityRefs : StartsWithAt(str, 1, r)
         IN <<EntityChar(ref)>> \o Unescape(SubSeq(str, Len(ref) + 1, Len(str)))
    ELSE <<Head(str)>> \o Unescape(Tail(str))

\* C6: the result of escapeAttr holds no < > " or ', every & in it starts
\* one of the references &amp; &#39; &quot; &lt; &gt;, decoding the references
\* once gives back the input text (no inserted reference is escaped a second
\* time), and null and undefined give the empty string.
C6_EscapeAttrNeutralises ==
    pc = "done" =>
        /\ \A i \in 1..Len(escOut) : escOut[i] \notin {"<", ">", "\"", "'"}
        /\ \A i \in 1..Len(escOut) :
              escOut[i] = "&" => \E ref \in EntityRefs : StartsWithAt(escOut, i, ref)
        /\ IF escIn.t \in {"null", "undefined"}
           THEN escOut = <<>>
           ELSE Unescape(escOut) = StringOf(escIn)

\* The text &lt; has been escaped to &amp;lt;
C6_Witness ==
    /\ pc = "done"
    /\ escIn = JsString(<<"&", "l", "t", ";">>)
    /\ escOut = <<"&", "a", "m", "p", ";", "l", "t", ";">>

WiFiKeywords == {<<"w", "i", "f", "i">>, <<"8", "0", "2", ".", "1", "1">>}
BluetoothKeywords == {<<"b", "l", "u", "e", "t", "o", "o", "t", "h">>, <<"b", "t">>, <<"b", "l", "e">>}
CellularKeywords == {<<"c", "e", "l", "l", "u", "l", "a", "r">>, <<"l", "t", "e">>, <<"g", "s", "m">>, <<"5", "g">>}

CasePairs ==
    {<<"W", "w">>, <<"I", "i">>, <<"F", "f">>, <<"B", "b">>, <<"T", "t">>, <<"L", "l">>,
     <<"E", "e">>, <<"G", "g">>, <<"S", "s">>, <<"M", "m">>}

\* keyword occurs in label, letters compared without regard to case
OccursIn(keyword, label) ==
    \E i \in 1..(Len(label) - Len(keyword) + 1) :
        \A j \in 1..Len(keyword) :
            label[i + j - 1] = keyword[j] \/ <<label[i + j - 1], keyword[j]>> \in CasePairs

CategoryOf(label) ==
    IF \E kw \in WiFiKeywords : OccursIn(kw, label) THEN "WiFi"
    ELSE IF \E kw \in BluetoothKeywords : OccursIn(kw, label) THEN "Bluetooth"
    ELSE IF \E kw \in CellularKeywords : OccursIn(kw, label) THEN "Cellular"
    ELSE "Unknown signal"

\* C5: the icon returned for a protocol label (the empty label for null and
\* undefined) is that of the first category, in the order WiFi, Bluetooth,
\* Cellular, one of whose keywords occurs in the label without regard to
\* case, and the unknown-signal icon exactly when no keyword occurs.
C5_FirstMatchingCategory ==
    pc = "done" =>
        LET label == IF sigIn.t = "string" THEN sigIn.s ELSE <<>>
        IN /\ sigOut.label = CategoryOf(label)
           /\ sigOut \in {wifi(""), bluetooth(""), cellular(""), signalUnknown("")}
           /\ sigOut = signalUnknown("") <=>
                 ~\E kw \in WiFiKeywords \cup BluetoothKeywords \cup CellularKeywords :
                      OccursIn(kw, label)

\* The label "BTWiFi" holds a Bluetooth and a WiFi keyword and got the WiFi icon.
C5_Witness ==
    /\ pc = "done"
    /\ sigIn = JsString(<<"B", "T", "W", "i", "F", "i">>)
    /\ sigOut = wifi("")

\* C9: the distance functions are symmetric under a swap of the two points,
\* give 0 for two identical points, and differ only by the radius applied to
\* the same central angle.
C9_DistanceSymmetric ==
    pc = "done" =>
        /\ distOut.nm # NaNDistance /\ distOut.km # NaNDistance
        /\ distOut.nm = distOut.nmSwapped
        /\ distOut.km = distOut.kmSwapped
        /\ (distIn.lat1 = distIn.lat2 /\ distIn.lon1 = distIn.lon2) =>
              (distOut.nm = 0 /\ distOut.km = 0)
        /\ distOut.nm % RadiusNm = 0 /\ distOut.km % RadiusKm = 0
        /\ distOut.nm \div RadiusNm = distOut.km \div RadiusKm

\* From the equator to the pole, a quarter turn, in both directions.
C9_Witness ==
    /\ pc = "done"
    /\ distIn = [lat1 |-> 0, lon1 |-> 90, lat2 |-> 90, lon2 |-> -90]
    /\ distOut.km = RadiusKm
    /\ distOut.kmSwapped = RadiusKm
    /\ distOut.nm = RadiusNm

----------------------------------------------------------------------------
(* Properties of the storage helpers *)

LastValue(k) == lastSet[k].v

\* C7: getStorageItem returns the default for a key never written and
\* otherwise the value of the latest setStorageItem on that key, whatever was
\* set on other keys; and it does not change the store.
C7_GetReturnsLastSet ==
    /\ \A k \in Keys, d \in Defaults :
          getStorageItem(store, k, d) = IF lastSet[k].written THEN LastValue(k) ELSE d
    /\ lastGet.done => store = lastGet.before

\* a string that JSON.parse accepts does not come back as itself
IsJsonText(v) == v.t = "string" /\ JSONparse(v.s).ok

\* C7 (amended): getStorageItem returns the default for a key never written;
\* otherwise the value of the latest setStorageItem on that key when that
\* value is an object, an array, null, a boolean, a number, or a string that
\* is not JSON text; a string that is JSON text comes back as the value it
\* denotes, never as the string.  Other keys do not matter, and
\* getStorageItem does not change the store.
C7_GetReturnsLastSetUnlessJsonText ==
    /\ \A k \in Keys, d \in Defaults :
          LET r == getStorageItem(store, k, d)
          IN IF ~lastSet[k].written
             THEN r = d
             ELSE IF IsJsonText(LastValue(k))
             THEN r = JSONparse(LastValue(k).s).v /\ r # LastValue(k)
             ELSE r = LastValue(k)
    /\ lastGet.done =>
          /\ store = lastGet.before
          /\ lastGet.ret = getStorageItem(store, lastGet.key, lastGet.default)

\* An object with a nested array and a string with a quote and a backslash
\* was set on k1, something else on k2, and the object read back from k1.
C7_Witness ==
    /\ lastGet.done
    /\ lastGet.key = "k1"
    /\ lastSet["k2"].written
    /\ LastValue("k1") = JsObject(<<JsMember(<<"a">>, JsString(<<"a", "\"", "\\">>)),
                                    JsMember(<<"b">>, JsArray(<<JsBoolean(FALSE)>>))>>)
    /\ lastGet.ret = LastValue("k1")

----------------------------------------------------------------------------
(* Properties of calls with arguments of any type *)

HasDigit(str) == \E i \in 1..Len(str) : IsDigit(str[i])

\* C8: no call of a utility function throws, whatever the type of its
\* argument; the validators return false for null, undefined, NaN and
\* booleans; parseFrequency returns NaN for an argument without a digit;
\* getStorageItem returns the stored text when it is not JSON.
C8_NoCallThrows ==
    pc = "done" =>
        /\ ~callOut.threw
        /\ (callFn \in {"isValidMac", "isValidChannel"}
              /\ callArg.t \in {"null", "undefined", "nan", "boolean"})
              => callOut.v = JsBoolean(FALSE)
        /\ (callFn = "parseFrequency" /\ callArg.t = "string" /\ ~HasDigit(callArg.s))
              => callOut.v = JsNaN
        /\ (callFn = "getStorageItem" /\ callArg.t = "string" /\ ~JSONparse(callArg.s).ok)
              => callOut.v = callArg

====
